---- MODULE Spec2Model ----
(***************************************************************************)
(* v2ex-digest: the MemStore (ranked, periodized cache with publish and    *)
(* skip markers, persisted as a JSON snapshot), the scorer, and the        *)
(* Collector and the Builder of the serve mode.                            *)
(*                                                                         *)
(* Time is counted in units of 12 hours (DayLen units per calendar day).   *)
(* A period key "YYYY-MM-DD" is modelled by its day number; the            *)
(* lexicographic order of zero-padded ISO dates is the order of the day    *)
(* numbers.  Scores are fixed-point integers (see computeScore).           *)
(***************************************************************************)
EXTENDS Integers, Sequences, FiniteSets, Bags, TLC

\* ---------------------------------------------------------------- bounds
NumIds == 6          \* identifiers the content source can return
MaxTime == 2         \* the clock runs from 0 to MaxTime
MaxInflight == 2     \* suspended ticks of one task the model follows
TopN == 1            \* config.generate.topN of the modelled deployment
SkipTtl == 1         \* config.generate.skipHours, in time units
MaxSources == 3      \* sources the Collector is configured with
MaxDown == 1         \* parts of the environment that fail at the same time
Interval == 2        \* the Collector's interval, in instants of the timed clock
ClockMax == 4        \* the timed clock runs from 0 to ClockMax
RankLen == 3         \* length of the lists handed to scoreAndRank
MaxRuns == 2         \* runs of `generate` the model follows

\* ------------------------------------------------------ program constants
DayLen == 2
minItems == 5
KeepDays == 7
FetchFactor == 5
channel == "v2ex-digest"
excludeNodes == <<"promotions", "deals", "cv", "exchange">>
nodes == <<"hot">>

NaN == -999999

Max(a, b) == IF a >= b THEN a ELSE b
Min(a, b) == IF a <= b THEN a ELSE b

\* new Date().toISOString().slice(0, 10): the calendar day of an instant
PeriodOf(t) == t \div DayLen

\* String.prototype.toLowerCase on the node names of the model
toLowerCase(n) ==
    CASE n = "Deals" -> "deals"
      [] n = "DEALS" -> "deals"
      [] n = "Tech" -> "tech"
      [] OTHER -> n

\* --------------------------------------------------------------- scorer
\* round(10 * (hours + 2) ^ 1.8) for hours = 0, 12, 24, 36 (0..3 time units)
Pow18x10 == <<35, 1156, 3523, 6976>>
ScoreScale == 10 * 1000

pow18(units) == Pow18x10[Min(units, Len(Pow18x10) - 1) + 1]

\* computeScore without its last line: an invalid createdAt gives NaN
computeScoreUnguarded(item, now) ==
    IF item.replies <= 0 THEN 0
    ELSE IF item.createdAt = NaN THEN NaN
    ELSE ((item.replies - 1) * ScoreScale) \div pow18(Max(now - item.createdAt, 0))

\* computeScore(item) with Date.now() = now; the result is the score times
\* 1000, rounded down.  A createdAt of NaN (an invalid Date) makes the
\* quotient NaN, which the last line turns into 0.
computeScore(item, now) ==
    IF item.replies <= 0 THEN 0
    ELSE IF item.createdAt = NaN THEN 0
    ELSE LET hoursSincePost == now - item.createdAt
             hours == Max(hoursSincePost, 0)
             score == ((item.replies - 1) * ScoreScale) \div pow18(hours)
         IN  IF score < 0 THEN 0 ELSE score

\* ---------------------------------------------------------------- store
\* items:        id -> NewsItem                      (Map<string, NewsItem>)
\* periodScores: period -> sequence of [id, score] in insertion order
\*                                       (Map<string, Map<string, number>>)
\* published:    set of <<channel, period>>                   (Set<string>)
\* skipped:      <<channel, id>> -> expiry            (Map<string, number>)
EmptyStore ==
    [items |-> <<>>, periodScores |-> <<>>, published |-> {}, skipped |-> <<>>]

Put(f, k, v) == [x \in (DOMAIN f) \cup {k} |-> IF x = k THEN v ELSE f[x]]
Drop(f, ks) == [x \in (DOMAIN f) \ ks |-> f[x]]

HasId(scores, id) == \E i \in DOMAIN scores : scores[i].id = id
IndexOfId(scores, id) == CHOOSE i \in DOMAIN scores : scores[i].id = id
ScoreOfId(scores, id) == scores[IndexOfId(scores, id)].score

\* Map.set on a score table: a new key is appended, an existing key keeps
\* its position
SetScore(scores, id, score) ==
    IF HasId(scores, id)
    THEN [scores EXCEPT ![IndexOfId(scores, id)].score = score]
    ELSE Append(scores, [id |-> id, score |-> score])

\* addItem without the comparison with the stored score
addItemAlways(s, period, item, score) ==
    LET scores == IF period \in DOMAIN s.periodScores
                  THEN s.periodScores[period] ELSE <<>>
    IN  [s EXCEPT !.items = Put(s.items, item.id, item),
                  !.periodScores = Put(s.periodScores, period,
                                       SetScore(scores, item.id, score))]

\* addItem that keeps the stored item when the score does not rise
addItemRatchetsItem(s, period, item, score) ==
    LET scores == IF period \in DOMAIN s.periodScores
                  THEN s.periodScores[period] ELSE <<>>
        existing == IF HasId(scores, item.id) THEN ScoreOfId(scores, item.id) ELSE 0
    IN  IF score > existing
        THEN [s EXCEPT !.items = Put(s.items, item.id, item),
                       !.periodScores = Put(s.periodScores, period,
                                            SetScore(scores, item.id, score))]
        ELSE [s EXCEPT !.periodScores = Put(s.periodScores, period, scores)]

addItem(s, period, item, score) ==
    LET scores == IF period \in DOMAIN s.periodScores
                  THEN s.periodScores[period] ELSE <<>>
        existing == IF HasId(scores, item.id) THEN ScoreOfId(scores, item.id) ELSE 0
        scores2 == IF score > existing THEN SetScore(scores, item.id, score) ELSE scores
    IN  [s EXCEPT !.items = Put(s.items, item.id, item),
                  !.periodScores = Put(s.periodScores, period, scores2)]

\* Array.prototype.sort((a, b) => b.score - a.score): stable, descending
RECURSIVE InsertDesc(_, _)
InsertDesc(e, sorted) ==
    IF sorted = <<>> THEN <<e>>
    ELSE IF Head(sorted).score >= e.score
         THEN <<Head(sorted)>> \o InsertDesc(e, Tail(sorted))
         ELSE <<e>> \o sorted

RECURSIVE SortDesc(_)
SortDesc(s) ==
    IF s = <<>> THEN <<>>
    ELSE InsertDesc(s[Len(s)], SortDesc(SubSeq(s, 1, Len(s) - 1)))

\* slice that forgets to truncate
sliceAll(s, n) == s

slice(s, n) == SubSeq(s, 1, Min(n, Len(s)))

\* scoreAndRank: new Set(excludeNodes.map(n => n.toLowerCase()))
rankExcludeSet(excl) == {toLowerCase(excl[i]) : i \in DOMAIN excl}

\* the loop of scoreAndRank that compares the node names as they are
RECURSIVE rankUniqueCaseSensitive(_, _, _, _)
rankUniqueCaseSensitive(items, seen, skipIds, exSet) ==
    IF items = <<>> THEN <<>>
    ELSE LET item == Head(items)
         IN  IF item.id \in seen \/ item.id \in skipIds
             THEN rankUniqueCaseSensitive(Tail(items), seen, skipIds, exSet)
             ELSE IF item.nodeName \in exSet
             THEN rankUniqueCaseSensitive(Tail(items), seen, skipIds, exSet)
             ELSE <<item>> \o rankUniqueCaseSensitive(Tail(items), seen \cup {item.id},
                                                      skipIds, exSet)

\* scoreAndRank, "Deduplicate by ID and filter excluded nodes": the loop
\* over the input with the set seen
RECURSIVE rankUnique(_, _, _, _)
rankUnique(items, seen, skipIds, exSet) ==
    IF items = <<>> THEN <<>>
    ELSE LET item == Head(items)
         IN  IF item.id \in seen \/ item.id \in skipIds
             THEN rankUnique(Tail(items), seen, skipIds, exSet)
             ELSE IF toLowerCase(item.nodeName) \in exSet
             THEN rankUnique(Tail(items), seen, skipIds, exSet)
             ELSE <<item>> \o rankUnique(Tail(items), seen \cup {item.id}, skipIds, exSet)

PositiveScore(e) == e.score > 0

\* scoreAndRank(items, topN, skipIds, excludeNodes) with Date.now() = t
scoreAndRank(items, topN, skipIds, excl, t) ==
    LET unique == rankUnique(items, {}, skipIds, rankExcludeSet(excl))
        scored == SelectSeq([i \in DOMAIN unique |->
                                [item |-> unique[i], score |-> computeScore(unique[i], t)]],
                            PositiveScore)
    IN  slice(SortDesc(scored), topN)

RECURSIVE JoinItems(_, _)
JoinItems(s, entries) ==
    IF entries = <<>> THEN <<>>
    ELSE LET e == Head(entries)
         IN  (IF e.id \in DOMAIN s.items
              THEN <<[item |-> s.items[e.id], score |-> e.score]>>
              ELSE <<>>) \o JoinItems(s, Tail(entries))

\* topItems that takes the entries in the order of the table
topItemsUnsorted(s, period, n) ==
    IF period \in DOMAIN s.periodScores
    THEN JoinItems(s, slice(s.periodScores[period], n))
    ELSE <<>>

topItems(s, period, n) ==
    IF period \notin DOMAIN s.periodScores THEN <<>>
    ELSE JoinItems(s, slice(SortDesc(s.periodScores[period]), n))

\* isPublished that looks for the marker of the day before
isPublishedYesterday(s, c, period) == <<c, period - 1>> \in s.published

isPublished(s, c, period) == <<c, period>> \in s.published

\* markPublished that keeps only the newest marker
markPublishedOnly(s, c, period) == [s EXCEPT !.published = {<<c, period>>}]

markPublished(s, c, period) == [s EXCEPT !.published = @ \cup {<<c, period>>}]

\* isSkipped that treats the expiry instant itself as expired
isSkippedAtExpiry(s, c, id, now) ==
    IF <<c, id>> \notin DOMAIN s.skipped THEN FALSE
    ELSE IF now >= s.skipped[<<c, id>>] THEN FALSE
    ELSE TRUE

\* isSkipped returns a value and may evict: the value ...
isSkipped(s, c, id, now) ==
    IF <<c, id>> \notin DOMAIN s.skipped THEN FALSE
    ELSE IF now > s.skipped[<<c, id>>] THEN FALSE
    ELSE TRUE

\* isSkipped that evicts whatever it looks at
isSkippedStoreAlways(s, c, id, now) == [s EXCEPT !.skipped = Drop(@, {<<c, id>>})]

\* ... and the store it leaves behind
isSkippedStore(s, c, id, now) ==
    IF <<c, id>> \notin DOMAIN s.skipped THEN s
    ELSE IF now > s.skipped[<<c, id>>]
         THEN [s EXCEPT !.skipped = Drop(@, {<<c, id>>})]
         ELSE s

markSkipped(s, c, id, ttlMs, now) ==
    [s EXCEPT !.skipped = Put(@, <<c, id>>, now + ttlMs)]

\* a cutoff that lies after today
cutoffTomorrow(now) == PeriodOf(now) + 1

\* cutoff.setDate(cutoff.getDate() - 7); cutoff.toISOString().slice(0, 10)
cutoffStr(now) == PeriodOf(now - KeepDays * DayLen)

\* gc that also forgets the items
gcDropsItems(s, now) ==
    [s EXCEPT !.skipped = Drop(@, {k \in DOMAIN @ : now > @[k]}),
              !.periodScores = Drop(@, {p \in DOMAIN @ : p < cutoffStr(now)}),
              !.items = <<>>]

\* gc that also drops the table of the cutoff day
gcInclusive(s, now) ==
    [s EXCEPT !.skipped = Drop(@, {k \in DOMAIN @ : now > @[k]}),
              !.periodScores = Drop(@, {p \in DOMAIN @ : p <= cutoffStr(now)})]

gc(s, now) ==
    [s EXCEPT !.skipped = Drop(@, {k \in DOMAIN @ : now > @[k]}),
              !.periodScores = Drop(@, {p \in DOMAIN @ : p < cutoffStr(now)})]

\* ------------------------------------------------------- content source
\* What client.fetchBySource can return at time now: the first k topics of
\* the day in one of two shapes.  Shape 1: replies rising with the id.
\* Shape 2: replies falling with the id, topics 2 and 3 moved to an excluded
\* node, topic 4 with a single reply.  The topics of a day are created when the
\* day starts.
Topic(i, shape, now) ==
    IF shape = 1
    THEN [id |-> i, nodeName |-> "Tech", replies |-> i + 1,
          createdAt |-> PeriodOf(now) * DayLen]
    ELSE [id |-> i, nodeName |-> IF i \in {2, 3} THEN "Deals" ELSE "Tech",
          replies |-> IF i = 4 THEN 1 ELSE NumIds + 3 - i,
          createdAt |-> PeriodOf(now) * DayLen]

FeedSizes == {NumIds}
Shapes == {1, 2}
Feed(k, shape, now) == [i \in 1..k |-> Topic(i, shape, now)]

\* ------------------------------------------------------------ collector
\* the body of the try block of Collector.runOnce for one source
RECURSIVE StoreFeed(_, _, _, _)
StoreFeed(s, period, fetched, now) ==
    IF fetched = <<>> THEN s
    ELSE LET item == Head(fetched)
             score == computeScore(item, now)
         IN  IF score <= 0 THEN StoreFeed(s, period, Tail(fetched), now)
             ELSE StoreFeed(addItem(s, period, item, score), period, Tail(fetched), now)

\* the highest score handed to addItem so far, per <<period, id>>
RECURSIVE NoteFeed(_, _, _, _)
NoteFeed(m, period, fetched, now) ==
    IF fetched = <<>> THEN m
    ELSE LET item == Head(fetched)
             score == computeScore(item, now)
             k == <<period, item.id>>
             old == IF k \in DOMAIN m THEN m[k] ELSE score
         IN  IF score <= 0 THEN NoteFeed(m, period, Tail(fetched), now)
             ELSE NoteFeed(Put(m, k, Max(old, score)), period, Tail(fetched), now)

\* -------------------------------------------------------------- builder
excludeSet == {toLowerCase(excludeNodes[i]) : i \in DOMAIN excludeNodes}

NotExcluded(c) == toLowerCase(c.item.nodeName) \notin excludeSet

\* a Builder without the skip filter
FilterSkippedNone(s, cands, now) == cands

\* candidates.filter(c => !store.isSkipped(channel, c.item.id)): the kept
\* candidates ...
RECURSIVE FilterSkipped(_, _, _)
FilterSkipped(s, cands, now) ==
    IF cands = <<>> THEN <<>>
    ELSE (IF isSkipped(s, channel, Head(cands).item.id, now) THEN <<>> ELSE <<Head(cands)>>)
         \o FilterSkipped(isSkippedStore(s, channel, Head(cands).item.id, now), Tail(cands), now)

\* ... and the store after the calls
RECURSIVE FilterSkippedStore(_, _, _)
FilterSkippedStore(s, cands, now) ==
    IF cands = <<>> THEN s
    ELSE FilterSkippedStore(isSkippedStore(s, channel, Head(cands).item.id, now), Tail(cands), now)

HasReplies(c) == c.item.replies > 0 /\ c.score > 0

fetchN == TopN * FetchFactor

\* a candidate read that takes the whole score table of the period
PoolWholeTable(s, period) ==
    topItems(s, period,
             IF period \in DOMAIN s.periodScores THEN Len(s.periodScores[period]) ELSE 0)

\* Builder.runOnce from the candidate read to the threshold check
Pool(s, period) == topItems(s, period, fetchN)
AfterExclude(s, period) == SelectSeq(Pool(s, period), NotExcluded)
Candidates(s, period, now) ==
    SelectSeq(FilterSkipped(s, AfterExclude(s, period), now), HasReplies)
AfterSelect(s, period, now) == FilterSkippedStore(s, AfterExclude(s, period), now)

RECURSIVE MarkAllSkipped(_, _, _)
MarkAllSkipped(s, top, now) ==
    IF top = <<>> THEN s
    ELSE MarkAllSkipped(markSkipped(s, channel, Head(top).item.id, SkipTtl, now), Tail(top), now)

\* a Builder that empties the table of the period it has published
MarkAndCollectResets(s, period, top, now) ==
    LET m == gc(MarkAllSkipped(markPublished(s, channel, period), top, now), now)
    IN  [m EXCEPT !.periodScores = Put(@, period, <<>>)]

\* Builder.runOnce after the digest file is written
MarkAndCollect(s, period, top, now) ==
    gc(MarkAllSkipped(markPublished(s, channel, period), top, now), now)

\* ------------------------------------------------------------- snapshot
\* The content of _store.json.  kind: "missing" (no file), "garbage" (text
\* that JSON.parse rejects, or a JSON value whose properties cannot be read)
\* or "json" with the four parts.  Each part is [t, v]: t = "absent" (the
\* property is missing or falsy), "ok" (a value of the written shape in v)
\* or, for the publish list, "number" (a value that cannot be iterated).
\*   items.v:        sequence of [id, null, item], an item null or with
\*                   createdAt as Date.prototype.toJSON writes it
\*   periodScores.v: sequence of [period, null, scores], scores null or a
\*                   sequence of [id, score]
\*   published.v:    set of <<channel, period>>
\*   skipped.v:      <<channel, id>> -> expiry
NoFile == [kind |-> "missing"]
Garbage == [kind |-> "garbage"]

\* new Date(null): the epoch, long before the model's clock starts
Epoch == 0 - 40000

\* Date.prototype.toJSON: the ISO string, null for an invalid Date
toJSON(d) == IF d = NaN THEN [null |-> TRUE, iso |-> 0] ELSE [null |-> FALSE, iso |-> d]

\* new Date(v) for the value JSON.parse returns for a written Date
NewDate(v) == IF v.null THEN Epoch ELSE v.iso

\* the keys of an object whose keys are integer-like: ascending
RECURSIVE KeysAsc(_)
KeysAsc(S) ==
    IF S = {} THEN <<>>
    ELSE LET m == CHOOSE x \in S : \A y \in S : x <= y
         IN  <<m>> \o KeysAsc(S \ {m})

\* Object.fromEntries of a score table: integer-like keys come out ascending
fromEntries(scores) ==
    LET ks == KeysAsc({scores[i].id : i \in DOMAIN scores})
    IN  [i \in DOMAIN ks |-> [id |-> ks[i], score |-> ScoreOfId(scores, ks[i])]]

\* persist that leaves the skip map out of the snapshot
persistNoSkipped(s) ==
    LET ids == KeysAsc(DOMAIN s.items)
        ps == KeysAsc(DOMAIN s.periodScores)
    IN  [kind |-> "json",
         items |-> [t |-> "ok",
                    v |-> [i \in DOMAIN ids |->
                             [id |-> ids[i], null |-> FALSE,
                              item |-> [s.items[ids[i]] EXCEPT !.createdAt = toJSON(@)]]]],
         periodScores |-> [t |-> "ok",
                           v |-> [i \in DOMAIN ps |->
                                    [period |-> ps[i], null |-> FALSE,
                                     scores |-> fromEntries(s.periodScores[ps[i]])]]],
         published |-> [t |-> "ok", v |-> s.published],
         skipped |-> [t |-> "ok", v |-> <<>>]]

\* persist(): the snapshot written to _store.json
persist(s) ==
    LET ids == KeysAsc(DOMAIN s.items)
        ps == KeysAsc(DOMAIN s.periodScores)
    IN  [kind |-> "json",
         items |-> [t |-> "ok",
                    v |-> [i \in DOMAIN ids |->
                             [id |-> ids[i], null |-> FALSE,
                              item |-> [s.items[ids[i]] EXCEPT !.createdAt = toJSON(@)]]]],
         periodScores |-> [t |-> "ok",
                           v |-> [i \in DOMAIN ps |->
                                    [period |-> ps[i], null |-> FALSE,
                                     scores |-> fromEntries(s.periodScores[ps[i]])]]],
         published |-> [t |-> "ok", v |-> s.published],
         skipped |-> [t |-> "ok", v |-> s.skipped]]

\* The loops of load().  Each returns the store reached and whether the
\* loop threw; what was set before the throw stays set.
RECURSIVE LoadItems(_, _)
LoadItems(s, es) ==
    IF es = <<>> THEN [s |-> s, threw |-> FALSE]
    ELSE IF Head(es).null THEN [s |-> s, threw |-> TRUE]
    ELSE LoadItems([s EXCEPT !.items =
                        Put(@, Head(es).id,
                            [Head(es).item EXCEPT !.createdAt = NewDate(@)])],
                   Tail(es))

RECURSIVE LoadScores(_, _)
LoadScores(s, es) ==
    IF es = <<>> THEN [s |-> s, threw |-> FALSE]
    ELSE IF Head(es).null THEN [s |-> s, threw |-> TRUE]
    ELSE LoadScores([s EXCEPT !.periodScores = Put(@, Head(es).period, Head(es).scores)],
                    Tail(es))

LoadPublished(s, part) ==
    IF part.t = "number" THEN [s |-> s, threw |-> TRUE]
    ELSE [s |-> [s EXCEPT !.published = @ \cup part.v], threw |-> FALSE]

LoadSkipped(s, part) ==
    [s |-> [s EXCEPT !.skipped =
                [k \in (DOMAIN @) \cup (DOMAIN part.v) |->
                    IF k \in DOMAIN part.v THEN part.v[k] ELSE @[k]]],
     threw |-> FALSE]

\* load(), called by the constructor on the empty store s
load(s, file) ==
    IF file.kind # "json" THEN s
    ELSE LET a == IF file.items.t = "ok"
                  THEN LoadItems(s, file.items.v) ELSE [s |-> s, threw |-> FALSE]
             b == IF a.threw \/ file.periodScores.t = "absent" THEN a
                  ELSE LoadScores(a.s, file.periodScores.v)
             c == IF b.threw \/ file.published.t = "absent" THEN b
                  ELSE LoadPublished(b.s, file.published)
             d == IF c.threw \/ file.skipped.t = "absent" THEN c
                  ELSE LoadSkipped(c.s, file.skipped)
         IN  d.s

\* ----------------------------------------------------------------- state
VARIABLES
    store,      \* the MemStore shared by Collector and Builder
    disk,       \* the snapshot in _store.json
    now,        \* Date.now()
    apiKey,     \* config.ai.apiKey is set
    sources,    \* Collector.nodes, the configured sources
    down,       \* what fails at present: "out" (writing ./out), "data"
                \* (writing _store.json), "ai" (the summarizer's requests)
    alive,      \* the process runs
    cticks,     \* bag of the Collector.runOnce calls suspended in a fetch
    ctimer,     \* the Collector's setInterval timer is set
    cdue,       \* the instant at which that timer fires next (timed model)
    cprev,      \* the instant at which the newest Collector tick started (timed model)
    bticks,     \* bag of the Builder.runOnce calls suspended in a summarization
    btimer,     \* the Builder's setInterval timer is set
    written,    \* period -> number of writes of out/daily-<period>.md
    maxUp,      \* <<period, id>> -> highest score ever handed to addItem (history)
    last        \* the step taken last and what it returned

vars == <<store, disk, now, apiKey, sources, down, alive, cticks, ctimer, cdue, cprev,
          bticks, btimer, written, maxUp, last>>

One(t) == SetToBag({t})

\* a Collector.runOnce call that has just asked for its first source
FirstFetch(initial) ==
    [period |-> PeriodOf(now), node |-> 1, initial |-> initial,
     asked |-> <<sources[1]>>, oks |-> <<>>]

\* runServe: the store is constructed (no snapshot to load), Collector.start
\* has entered its initial runOnce and waits for the first fetch,
\* Builder.start has set its timer
Init ==
    /\ store = EmptyStore
    /\ disk = NoFile
    /\ now = 0
    /\ apiKey \in BOOLEAN
    /\ sources = nodes
    /\ down = {}
    /\ alive = TRUE
    /\ cticks = One([period |-> PeriodOf(0), node |-> 1, initial |-> TRUE,
                     asked |-> <<nodes[1]>>, oks |-> <<>>])
    /\ ctimer = FALSE
    /\ cdue = 0
    /\ cprev = 0
    /\ bticks = EmptyBag
    /\ btimer = TRUE
    /\ written = <<>>
    /\ maxUp = <<>>
    /\ last = [act |-> "start"]

\* Date.now() moves on
Advance ==
    /\ now < MaxTime
    /\ now' = now + 1
    /\ last' = [act |-> "Advance"]
    /\ UNCHANGED <<store, disk, apiKey, sources, down, alive, cticks, ctimer, cdue, cprev,
                   bticks, btimer, written, maxUp>>

\* The Collector's interval timer fires: the callback enters runOnce, which
\* takes the period and suspends in the fetch of the first source.
CollectorTimer ==
    /\ ctimer
    /\ BagCardinality(cticks) < MaxInflight
    /\ cticks' = cticks (+) One(FirstFetch(FALSE))
    /\ last' = [act |-> "CollectorTimer"]
    /\ UNCHANGED <<store, disk, now, apiKey, sources, down, alive, ctimer, cdue, cprev,
                   bticks, btimer, written, maxUp>>

\* some upsert of the feed carries a score not above the stored one
Lowers(s, period, fetched, t) ==
    \E i \in DOMAIN fetched :
        /\ computeScore(fetched[i], t) > 0
        /\ period \in DOMAIN s.periodScores
        /\ HasId(s.periodScores[period], fetched[i].id)
        /\ computeScore(fetched[i], t) <= ScoreOfId(s.periodScores[period], fetched[i].id)

\* process.exit, or the runtime ending the process: timers and suspended
\* calls are gone
Exits ==
    /\ alive' = FALSE
    /\ cticks' = EmptyBag
    /\ bticks' = EmptyBag
    /\ ctimer' = FALSE
    /\ btimer' = FALSE

\* CollectorResume that gives the tick up when a fetch throws
CollectorResumeStops(t, ok, fetched) ==
    LET s1 == IF ok THEN StoreFeed(store, t.period, fetched, now) ELSE store
        done == t.node = Len(sources) \/ ~ok
    IN  /\ store' = s1
        /\ maxUp' = IF ok THEN NoteFeed(maxUp, t.period, fetched, now) ELSE maxUp
        /\ disk' = IF done THEN persist(s1) ELSE disk
        /\ last' = [act |-> "CollectorResume", ok |-> ok,
                    lowers |-> ok /\ Lowers(store, t.period, fetched, now),
                    node |-> t.node, asked |-> t.asked,
                    oks |-> Append(t.oks, ok), done |-> done,
                    persisted |-> done, period |-> t.period]
        /\ cticks' = IF done THEN cticks (-) One(t)
                     ELSE (cticks (-) One(t))
                          (+) One([t EXCEPT !.node = @ + 1,
                                            !.asked = Append(@, sources[t.node + 1]),
                                            !.oks = Append(@, ok)])
        /\ ctimer' = IF done /\ t.initial THEN TRUE ELSE ctimer
        /\ UNCHANGED <<now, apiKey, sources, down, alive, bticks, btimer, written>>

\* The fetch of tick t returns (a feed) or throws: the items are scored and
\* upserted, and the tick goes on to the next source or persists and ends.
\* The end of the initial runOnce lets Collector.start set the timer.  A
\* persist that throws rejects runOnce: in the initial call that rejects
\* start and runServe, and the serve action exits; in a timer callback
\* nobody handles the rejection, and the runtime may end the process.
CollectorResume(t, ok, fetched) ==
    LET s1 == IF ok THEN StoreFeed(store, t.period, fetched, now) ELSE store
        done == t.node = Len(sources)
        threw == done /\ "data" \in down
    IN  /\ store' = s1
        /\ maxUp' = IF ok THEN NoteFeed(maxUp, t.period, fetched, now) ELSE maxUp
        /\ disk' = IF done /\ ~threw THEN persist(s1) ELSE disk
        /\ last' = [act |-> "CollectorResume", ok |-> ok,
                    lowers |-> ok /\ Lowers(store, t.period, fetched, now),
                    node |-> t.node, asked |-> t.asked,
                    oks |-> Append(t.oks, ok), done |-> done,
                    persisted |-> done /\ ~threw, period |-> t.period]
        /\ \E dies \in BOOLEAN :
              /\ dies => threw
              /\ (threw /\ t.initial) => dies
              /\ IF dies THEN Exits
                 ELSE /\ cticks' = IF done THEN cticks (-) One(t)
                                   ELSE (cticks (-) One(t))
                                        (+) One([t EXCEPT !.node = @ + 1,
                                                          !.asked = Append(@, sources[t.node + 1]),
                                            !.oks = Append(@, ok)])
                      /\ ctimer' = IF done /\ t.initial THEN TRUE ELSE ctimer
                      /\ UNCHANGED <<alive, bticks, btimer>>
        /\ UNCHANGED <<now, apiKey, sources, down, written>>

CollectorFetched ==
    /\ \E t \in BagToSet(cticks) : \E k \in FeedSizes, shape \in Shapes :
          CollectorResume(t, TRUE, Feed(k, shape, now))
    /\ UNCHANGED <<cdue, cprev>>

CollectorFetchFailed ==
    /\ \E t \in BagToSet(cticks) : CollectorResume(t, FALSE, <<>>)
    /\ UNCHANGED <<cdue, cprev>>

\* how Builder.runOnce ends once it has its descriptions: "failed" when
\* writing the digest throws, "unsaved" when the digest is written and the
\* markers are set but persist throws, "published" otherwise
PublishRes ==
    IF "out" \in down THEN "failed"
    ELSE IF "data" \in down THEN "unsaved"
    ELSE "published"

\* Builder.runOnce from "Render" to the end, had persist() run right after
\* markPublished, before the markSkipped calls
PublishSnapshotsEarly(s, period, top) ==
    \E s1 \in {MarkAndCollect(s, period, top, now)} :
        /\ written' = IF PublishRes = "failed" THEN written
                      ELSE Put(written, period,
                               IF period \in DOMAIN written THEN written[period] + 1 ELSE 1)
        /\ store' = IF PublishRes = "failed" THEN s ELSE s1
        /\ disk' = IF PublishRes = "published"
                   THEN persist(markPublished(s, channel, period)) ELSE disk

\* Builder.runOnce from "Render" to the end, for the selection top
Publish(s, period, top) ==
    \E s1 \in {MarkAndCollect(s, period, top, now)} :
        /\ written' = IF PublishRes = "failed" THEN written
                      ELSE Put(written, period,
                               IF period \in DOMAIN written THEN written[period] + 1 ELSE 1)
        /\ store' = IF PublishRes = "failed" THEN s ELSE s1
        /\ disk' = IF PublishRes = "published" THEN persist(s1) ELSE disk

\* the descriptions of a digest built without a summarizer
NoDescs(top) == [i \in DOMAIN top |-> ""]

\* The Builder's interval timer fires: the callback runs runOnce up to its
\* first suspension (the first summarization) or, without one, to its end.
BuilderTimer ==
    LET period == PeriodOf(now)
        cands == Candidates(store, period, now)
        s1 == AfterSelect(store, period, now)
        top == slice(cands, TopN)
        rest == {cands[i].item.id : i \in DOMAIN cands} \ {top[i].item.id : i \in DOMAIN top}
        res == IF isPublished(store, channel, period) THEN "already"
               ELSE IF Len(cands) < minItems THEN "waiting"
               ELSE IF apiKey THEN "selected"
               ELSE PublishRes
    IN  /\ btimer
        /\ BagCardinality(bticks) < MaxInflight
        /\ IF res = "already"
           THEN /\ last' = [act |-> "BuilderTimer", res |-> "already"]
                /\ UNCHANGED <<store, disk, written>>
           ELSE IF res = "waiting"
           THEN /\ store' = s1
                /\ last' = [act |-> "BuilderTimer", res |-> "waiting",
                            evicted |-> s1 # store]
                /\ UNCHANGED <<disk, written>>
           ELSE IF res = "selected"
           THEN /\ store' = s1
                /\ last' = [act |-> "BuilderTimer", res |-> "selected"]
                /\ UNCHANGED <<disk, written>>
           ELSE /\ Publish(s1, period, top)
                /\ last' = [act |-> "BuilderTimer", res |-> res,
                            top |-> top, rest |-> rest,
                            descs |-> NoDescs(top), summary |-> ""]
        /\ \E dies \in BOOLEAN :
              /\ dies => res \in {"failed", "unsaved"}
              /\ IF dies THEN Exits
                 ELSE /\ bticks' = IF res = "selected"
                                   THEN bticks (+) One([period |-> period, top |-> top,
                                                        rest |-> rest, idx |-> 0,
                                                        descs |-> <<>>])
                                   ELSE bticks
                      /\ UNCHANGED <<alive, cticks, ctimer, btimer>>
        /\ UNCHANGED <<now, apiKey, sources, down, cdue, cprev, maxUp>>

\* chat that answers whatever happens to the request
chatAlways == "text"

\* Summarizer.chat: the text of the model, "" when the request fails
chat == IF "ai" \in down THEN "" ELSE "text"

\* A summarization call of tick t returns (a text, or "" after a failure):
\* the tick goes on to the next call, or renders, writes, marks and ends.
\* idx counts the summarizeItem calls that have returned; the call after
\* the last of them is summarizePost.
BuilderResume ==
    \E t \in BagToSet(bticks) :
        LET more == t.idx < Len(t.top)
            res == IF more THEN "summarized" ELSE PublishRes
        IN  /\ IF more
               THEN /\ last' = [act |-> "BuilderResume", res |-> res, desc |-> chat]
                    /\ UNCHANGED <<store, disk, written>>
               ELSE /\ Publish(store, t.period, t.top)
                    /\ last' = [act |-> "BuilderResume", res |-> res,
                                descs |-> t.descs, summary |-> chat]
            /\ \E dies \in BOOLEAN :
                  /\ dies => res \in {"failed", "unsaved"}
                  /\ IF dies THEN Exits
                     ELSE /\ bticks' = IF more
                                       THEN (bticks (-) One(t))
                                            (+) One([t EXCEPT !.idx = @ + 1,
                                                              !.descs = Append(@, chat)])
                                       ELSE bticks (-) One(t)
                          /\ UNCHANGED <<alive, cticks, ctimer, btimer>>
            /\ UNCHANGED <<now, apiKey, sources, down, cdue, cprev, maxUp>>

Next ==
    \/ Advance
    \/ CollectorTimer
    \/ CollectorFetched
    \/ CollectorFetchFailed
    \/ BuilderTimer
    \/ BuilderResume

Spec == Init /\ [][Next]_vars

\* ------------------------------------------------- the store, called directly
\* A caller that invokes the methods of one MemStore in any order, with
\* any arguments from small sets.
StIds == 1..2
StPeriods == {0 - KeepDays - 1, 0 - KeepDays, 0}
StTtls == {0, SkipTtl}
StItem(i) == [id |-> i, nodeName |-> "Tech", replies |-> 2, createdAt |-> 0]

StInit ==
    /\ store = EmptyStore
    /\ disk = NoFile
    /\ now = 0
    /\ apiKey = FALSE
    /\ sources = nodes
    /\ down = {}
    /\ alive = TRUE
    /\ cticks = EmptyBag
    /\ ctimer = FALSE
    /\ cdue = 0
    /\ cprev = 0
    /\ bticks = EmptyBag
    /\ btimer = FALSE
    /\ written = <<>>
    /\ maxUp = <<>>
    /\ last = [act |-> "start"]

StFrame == UNCHANGED <<disk, apiKey, sources, down, alive, cticks, ctimer, cdue, cprev,
                       bticks, btimer, written, maxUp>>

StAdvance ==
    /\ now < MaxTime
    /\ now' = now + 1
    /\ last' = [act |-> "Advance"]
    /\ UNCHANGED store
    /\ StFrame

StAddItem ==
    \E period \in StPeriods :
        /\ store' = addItem(store, period, StItem(1), 1)
        /\ last' = [act |-> "addItem"]
        /\ UNCHANGED now
        /\ StFrame

StMarkPublished ==
    \E period \in StPeriods \ {0 - KeepDays} :
        /\ store' = markPublished(store, channel, period)
        /\ last' = [act |-> "markPublished"]
        /\ UNCHANGED now
        /\ StFrame

StMarkSkipped ==
    \E id \in StIds, ttl \in StTtls :
        /\ store' = markSkipped(store, channel, id, ttl, now)
        /\ last' = [act |-> "markSkipped", id |-> id, ttl |-> ttl]
        /\ UNCHANGED now
        /\ StFrame

StIsSkipped ==
    \E id \in StIds :
        /\ store' = isSkippedStore(store, channel, id, now)
        /\ last' = [act |-> "isSkipped", id |-> id,
                    had |-> <<channel, id>> \in DOMAIN store.skipped,
                    res |-> isSkipped(store, channel, id, now)]
        /\ UNCHANGED now
        /\ StFrame

StGc ==
    /\ store' = gc(store, now)
    /\ last' = [act |-> "gc",
                 tables |-> Cardinality(DOMAIN store.periodScores \ DOMAIN store'.periodScores),
                 markers |-> Cardinality(DOMAIN store.skipped \ DOMAIN store'.skipped)]
    /\ UNCHANGED now
    /\ StFrame

StNext ==
    \/ StAdvance
    \/ StAddItem
    \/ StMarkPublished
    \/ StMarkSkipped
    \/ StIsSkipped
    \/ StGc

SpecStore == StInit /\ [][StNext]_vars

\* ------------------------------------------------ the constructor's load()
\* A MemStore is constructed over whatever _store.json holds: no file, text
\* that is not JSON, or a JSON object whose parts are each missing, of the
\* written shape, or malformed at some point.
LdItem(i) == [id |-> i, null |-> FALSE,
              item |-> [id |-> i, nodeName |-> "Tech", replies |-> 2, createdAt |-> toJSON(0)]]
LdNullItem(i) == [LdItem(i) EXCEPT !.null = TRUE]
LdScores(p) == [period |-> p, null |-> FALSE, scores |-> <<[id |-> 1, score |-> 5]>>]
LdNullScores(p) == [LdScores(p) EXCEPT !.null = TRUE]

LdItemParts ==
    {[t |-> "absent", v |-> <<>>],
     [t |-> "ok", v |-> <<LdItem(1)>>],
     [t |-> "ok", v |-> <<LdItem(1), LdNullItem(2)>>],
     [t |-> "ok", v |-> <<LdNullItem(1)>>]}
LdScoreParts ==
    {[t |-> "absent", v |-> <<>>],
     [t |-> "ok", v |-> <<LdScores(0)>>],
     [t |-> "ok", v |-> <<LdScores(0), LdNullScores(1)>>]}
LdPublishedParts ==
    {[t |-> "absent", v |-> {}],
     [t |-> "ok", v |-> {<<channel, 0>>}],
     [t |-> "number", v |-> {}]}
LdSkippedParts ==
    {[t |-> "absent", v |-> <<>>],
     [t |-> "ok", v |-> (<<channel, 1>> :> SkipTtl)]}

Files ==
    {NoFile, Garbage} \cup
    [kind : {"json"}, items : LdItemParts, periodScores : LdScoreParts,
     published : LdPublishedParts, skipped : LdSkippedParts]

LdInit ==
    /\ store = EmptyStore
    /\ disk \in Files
    /\ now = 0
    /\ apiKey = FALSE
    /\ sources = nodes
    /\ down = {}
    /\ alive = TRUE
    /\ cticks = EmptyBag
    /\ ctimer = FALSE
    /\ cdue = 0
    /\ cprev = 0
    /\ bticks = EmptyBag
    /\ btimer = FALSE
    /\ written = <<>>
    /\ maxUp = <<>>
    /\ last = [act |-> "start"]

\* new MemStore(dataDir): the constructor calls load() once
LdLoad ==
    /\ last.act = "start"
    /\ store' = load(store, disk)
    /\ last' = [act |-> "load"]
    /\ UNCHANGED <<disk, now, apiKey, sources, down, alive, cticks, ctimer, cdue, cprev,
                   bticks, btimer, written, maxUp>>

LdNext == LdLoad

SpecLoad == LdInit /\ [][LdNext]_vars

\* ------------------------------------------- the Collector over several sources
\* The Collector alone, configured with one to MaxSources sources, within
\* one instant of the clock.
SourceNames == <<"hot", "latest", "tech", "ideas", "create">>
SourceLists == {SubSeq(SourceNames, 1, n) : n \in 1..Min(MaxSources, Len(SourceNames))}

CoInit ==
    /\ store = EmptyStore
    /\ disk = NoFile
    /\ now = 0
    /\ apiKey = FALSE
    /\ sources \in SourceLists
    /\ down = {}
    /\ alive = TRUE
    /\ cticks = One([period |-> PeriodOf(0), node |-> 1, initial |-> TRUE,
                     asked |-> <<sources[1]>>, oks |-> <<>>])
    /\ ctimer = FALSE
    /\ cdue = 0
    /\ cprev = 0
    /\ bticks = EmptyBag
    /\ btimer = FALSE
    /\ written = <<>>
    /\ maxUp = <<>>
    /\ last = [act |-> "start"]

CoNext ==
    \/ CollectorTimer
    \/ CollectorFetched
    \/ CollectorFetchFailed

SpecCollect == CoInit /\ [][CoNext]_vars

\* ------------------------------------------ serve mode with faults and signals
\* The two tasks within one instant of the clock, in an environment where
\* writing ./out, writing _store.json and the summarizer's requests can
\* start and stop failing (at most MaxDown of them at a time), and where
\* SIGINT or SIGTERM can arrive at any moment.
Faults == {"out", "data", "ai"}

Fails ==
    /\ alive
    /\ Cardinality(down) < MaxDown
    /\ \E d \in Faults \ down : down' = down \cup {d}
    /\ last' = [act |-> "Fails"]
    /\ UNCHANGED <<store, disk, now, apiKey, sources, alive, cticks, ctimer, cdue, cprev,
                   bticks, btimer, written, maxUp>>

Recovers ==
    /\ alive
    /\ \E d \in down : down' = down \ {d}
    /\ last' = [act |-> "Recovers"]
    /\ UNCHANGED <<store, disk, now, apiKey, sources, alive, cticks, ctimer, cdue, cprev,
                   bticks, btimer, written, maxUp>>

\* The shutdown handler of runServe: ac.abort() runs the abort listeners
\* (each clears its timer), store.persist() writes the snapshot, and
\* process.exit(0) ends the process with whatever is still suspended.  A
\* persist that throws ends the process as well, without a snapshot.
Shutdown ==
    /\ alive
    /\ disk' = IF "data" \in down THEN disk ELSE persist(store)
    /\ Exits
    /\ last' = [act |-> "Shutdown",
                 cut |-> BagCardinality(cticks) + BagCardinality(bticks),
                 persisted |-> "data" \notin down]
    /\ UNCHANGED <<store, now, apiKey, sources, down, cdue, cprev, written, maxUp>>

SvNext ==
    \/ CollectorTimer
    \/ CollectorFetched
    \/ CollectorFetchFailed
    \/ BuilderTimer
    \/ BuilderResume
    \/ Fails
    \/ Recovers
    \/ Shutdown

SpecServe == Init /\ [][SvNext]_vars

\* ------------------------------------------------- snapshots over the days
\* Serve mode with the clock moving and the shutdown handler: every writer
\* of _store.json (Builder.runOnce, Collector.runOnce, shutdown) takes part.
SnNext ==
    \/ Advance
    \/ CollectorTimer
    \/ CollectorFetched
    \/ BuilderTimer
    \/ BuilderResume
    \/ Shutdown

SpecSnap == Init /\ [][SnNext]_vars

\* ------------------------------------------------- the Collector's timer, timed
\* Collector.start with the clock followed: setInterval, called at instant
\* c, fires at c + Interval, c + 2 * Interval, ..., whether or not the
\* callbacks it started have returned; a fetch takes any time.
ClkInit ==
    /\ store = EmptyStore
    /\ disk = NoFile
    /\ now = 0
    /\ apiKey = FALSE
    /\ sources = nodes
    /\ down = {}
    /\ alive = TRUE
    /\ cticks = One([period |-> PeriodOf(0), node |-> 1, initial |-> TRUE,
                     asked |-> <<nodes[1]>>, oks |-> <<>>])
    /\ ctimer = FALSE
    /\ cdue = 0
    /\ cprev = 0
    /\ bticks = EmptyBag
    /\ btimer = FALSE
    /\ written = <<>>
    /\ maxUp = <<>>
    /\ last = [act |-> "start"]

\* the clock moves on, but not past an instant at which the timer is due
ClkAdvance ==
    /\ now < ClockMax
    /\ ~(ctimer /\ cdue = now)
    /\ now' = now + 1
    /\ last' = [act |-> "Advance"]
    /\ UNCHANGED <<store, disk, apiKey, sources, down, alive, cticks, ctimer, cdue, cprev,
                   bticks, btimer, written, maxUp>>

\* the timer is due: the callback enters runOnce, and the timer is set
\* for one interval later
ClkFire ==
    /\ ctimer
    /\ cdue = now
    /\ cticks' = cticks (+) One(FirstFetch(FALSE))
    /\ cdue' = cdue + Interval
    /\ cprev' = now
    /\ last' = [act |-> "ClkFire"]
    /\ UNCHANGED <<store, disk, now, apiKey, sources, down, alive, ctimer,
                   bticks, btimer, written, maxUp>>

\* a fetch returns or throws; the end of the initial runOnce lets
\* Collector.start call setInterval
ClkReturn ==
    /\ \E t \in BagToSet(cticks) :
          /\ \/ \E k \in FeedSizes, shape \in Shapes :
                   CollectorResume(t, TRUE, Feed(k, shape, now))
             \/ CollectorResume(t, FALSE, <<>>)
          /\ cdue' = IF t.initial /\ t.node = Len(sources) THEN now + Interval ELSE cdue
    /\ UNCHANGED cprev

ClkNext ==
    \/ ClkAdvance
    \/ ClkFire
    \/ ClkReturn

SpecClock == ClkInit /\ [][ClkNext]_vars

\* ------------------------------------------------------ the scorer, called directly
\* One call of computeScore, of scoreAndRank or of the Collector's scoring
\* loop on an empty store, at any instant, with any arguments from small
\* sets: items with repeated identifiers, node names in several cases,
\* replies below, at and above 1, creation times in the past, in the
\* future and invalid.
RkItems ==
    {[id |-> 1, nodeName |-> "Tech", replies |-> 3, createdAt |-> 0],
     [id |-> 1, nodeName |-> "Deals", replies |-> 3, createdAt |-> 0],
     [id |-> 2, nodeName |-> "Tech", replies |-> 5, createdAt |-> 0],
     [id |-> 2, nodeName |-> "Tech", replies |-> 0, createdAt |-> 0],
     [id |-> 3, nodeName |-> "Tech", replies |-> 3, createdAt |-> MaxTime + 1],
     [id |-> 3, nodeName |-> "deals", replies |-> 2, createdAt |-> NaN],
     [id |-> 4, nodeName |-> "Tech", replies |-> 1, createdAt |-> 0],
     [id |-> 4, nodeName |-> "Tech", replies |-> 0 - 1, createdAt |-> 0]}

RECURSIVE RkListsOf(_)
RkListsOf(n) ==
    IF n = 0 THEN {<<>>}
    ELSE RkListsOf(n - 1) \cup
         {Append(l, x) : l \in {m \in RkListsOf(n - 1) : Len(m) = n - 1}, x \in RkItems}

RkLists == RkListsOf(RankLen)
RkSkips == {{}, {1}}
RkExcludes == {<<>>, <<"deals">>, <<"DEALS">>}

RkInit ==
    /\ store = EmptyStore
    /\ disk = NoFile
    /\ now \in 0..MaxTime
    /\ apiKey = FALSE
    /\ sources = nodes
    /\ down = {}
    /\ alive = TRUE
    /\ cticks = EmptyBag
    /\ ctimer = FALSE
    /\ cdue = 0
    /\ cprev = 0
    /\ bticks = EmptyBag
    /\ btimer = FALSE
    /\ written = <<>>
    /\ maxUp = <<>>
    /\ last = [act |-> "start"]

RkFrame == UNCHANGED <<disk, now, apiKey, sources, down, alive, cticks, ctimer, cdue, cprev,
                       bticks, btimer, written, maxUp>>

RkScore ==
    /\ last.act = "start"
    /\ \E item \in RkItems :
          last' = [act |-> "computeScore", item |-> item, res |-> computeScore(item, now)]
    /\ UNCHANGED store
    /\ RkFrame

RkRank ==
    /\ last.act = "start"
    /\ \E items \in RkLists, topN \in 0..RankLen, skipIds \in RkSkips, excl \in RkExcludes :
          last' = [act |-> "scoreAndRank", items |-> items, topN |-> topN,
                   skipIds |-> skipIds, excludeNodes |-> excl,
                   res |-> scoreAndRank(items, topN, skipIds, excl, now)]
    /\ UNCHANGED store
    /\ RkFrame

RkCollect ==
    /\ last.act = "start"
    /\ \E items \in RkLists :
          /\ store' = StoreFeed(store, PeriodOf(now), items, now)
          /\ last' = [act |-> "collect", items |-> items]
    /\ RkFrame

RkNext ==
    \/ RkScore
    \/ RkRank
    \/ RkCollect

SpecRank == RkInit /\ [][RkNext]_vars

\* ------------------------------------------- addItem and topItems, called directly
\* A caller that upserts items with any score into two periods of one
\* MemStore and reads the top of any period, one of them never written.
TbIds == 1..2
TbPeriods == {0, 1}
TbReadPeriods == {0, 1, 2}
TbScores == 0..2
TbReplies == {2, 3}
TbSizes == 0..3
TbItem(i, r) == [id |-> i, nodeName |-> "Tech", replies |-> r, createdAt |-> 0]

TbAddItem ==
    \E id \in TbIds, r \in TbReplies, score \in TbScores, period \in TbPeriods :
        /\ store' = addItem(store, period, TbItem(id, r), score)
        /\ last' = [act |-> "addItem", period |-> period, item |-> TbItem(id, r),
                    score |-> score]
        /\ UNCHANGED now
        /\ StFrame

TbTopItems ==
    \E period \in TbReadPeriods, n \in TbSizes :
        /\ last' = [act |-> "topItems", period |-> period, n |-> n,
                    res |-> topItems(store, period, n)]
        /\ UNCHANGED <<store, now>>
        /\ StFrame

TbNext ==
    \/ TbAddItem
    \/ TbTopItems

SpecTable == StInit /\ [][TbNext]_vars

\* ------------------------------------------------ the callbacks, line by line
\* The event loop runs one callback at a time until it reaches an await.
\* Collector.runOnce is followed statement by statement, addItem in its two
\* writes; the callback of the Builder's timer enters runOnce and reads the
\* table.  A tick is at "fetch" (awaiting fetchBySource), at "loop" (before
\* the next item of the for loop) or at "score" (inside addItem, the item
\* stored and the score table not yet written).

\* a callback that is suspended wherever it stands
AwaitsAnywhere(pc) == TRUE

\* the position at which Collector.runOnce awaits
Awaits(pc) == pc = "fetch"

\* no callback is on the stack
Idle == \A t \in BagToSet(cticks) : Awaits(t.pc)

\* addItem, first statement
addItemSet(s, item) == [s EXCEPT !.items = Put(s.items, item.id, item)]

\* addItem, the statements after the first
addItemScore(s, period, item, score) ==
    LET scores == IF period \in DOMAIN s.periodScores
                  THEN s.periodScores[period] ELSE <<>>
        existing == IF HasId(scores, item.id) THEN ScoreOfId(scores, item.id) ELSE 0
        scores2 == IF score > existing THEN SetScore(scores, item.id, score) ELSE scores
    IN  [s EXCEPT !.periodScores = Put(s.periodScores, period, scores2)]

AtInit ==
    /\ store = EmptyStore
    /\ disk = NoFile
    /\ now = 0
    /\ apiKey = FALSE
    /\ sources = nodes
    /\ down = {}
    /\ alive = TRUE
    /\ cticks = One([period |-> PeriodOf(0), pc |-> "fetch", items |-> <<>>, idx |-> 0])
    /\ ctimer = FALSE
    /\ cdue = 0
    /\ cprev = 0
    /\ bticks = EmptyBag
    /\ btimer = TRUE
    /\ written = <<>>
    /\ maxUp = <<>>
    /\ last = [act |-> "start"]

AtFrame == UNCHANGED <<now, apiKey, sources, down, alive, cdue, cprev, bticks, btimer,
                       written, maxUp>>

\* the Collector's timer fires: runOnce runs up to its await
AtTimer ==
    /\ Idle
    /\ BagCardinality(cticks) < MaxInflight
    /\ cticks' = cticks (+) One([period |-> PeriodOf(now), pc |-> "fetch",
                                 items |-> <<>>, idx |-> 0])
    /\ ctimer' = TRUE
    /\ last' = [act |-> "CollectorTimer"]
    /\ UNCHANGED <<store, disk>>
    /\ AtFrame

\* fetchBySource resolves and the tick is resumed
AtFetched ==
    \E t \in BagToSet(cticks), k \in FeedSizes, shape \in Shapes :
        /\ t.pc = "fetch"
        /\ Idle
        /\ cticks' = (cticks (-) One(t))
                        (+) One([t EXCEPT !.pc = "loop", !.items = Feed(k, shape, now),
                                          !.idx = 1])
        /\ last' = [act |-> "fetched"]
        /\ UNCHANGED <<store, disk, ctimer>>
        /\ AtFrame

\* for (const item of items): computeScore, continue, or enter addItem and
\* store the item
AtItem ==
    \E t \in BagToSet(cticks) :
        /\ t.pc = "loop"
        /\ t.idx <= Len(t.items)
        /\ LET item == t.items[t.idx]
           IN  IF computeScore(item, now) <= 0
               THEN /\ cticks' = (cticks (-) One(t)) (+) One([t EXCEPT !.idx = @ + 1])
                    /\ UNCHANGED store
               ELSE /\ cticks' = (cticks (-) One(t)) (+) One([t EXCEPT !.pc = "score"])
                    /\ store' = addItemSet(store, item)
        /\ last' = [act |-> "item"]
        /\ UNCHANGED <<disk, ctimer>>
        /\ AtFrame

\* the rest of addItem
AtScore ==
    \E t \in BagToSet(cticks) :
        /\ t.pc = "score"
        /\ LET item == t.items[t.idx]
           IN  store' = addItemScore(store, t.period, item, computeScore(item, now))
        /\ cticks' = (cticks (-) One(t)) (+) One([t EXCEPT !.pc = "loop", !.idx = @ + 1])
        /\ last' = [act |-> "score"]
        /\ UNCHANGED <<disk, ctimer>>
        /\ AtFrame

\* the loops end, persist, return
AtReturn ==
    \E t \in BagToSet(cticks) :
        /\ t.pc = "loop"
        /\ t.idx > Len(t.items)
        /\ cticks' = cticks (-) One(t)
        /\ disk' = persist(store)
        /\ last' = [act |-> "return"]
        /\ UNCHANGED <<store, ctimer>>
        /\ AtFrame

\* the Builder's timer fires: runOnce reads the period's table
AtRead ==
    /\ Idle
    /\ last' = [act |-> "topItems", period |-> PeriodOf(now),
                res |-> topItems(store, PeriodOf(now), fetchN)]
    /\ UNCHANGED <<store, disk, cticks, ctimer>>
    /\ AtFrame

AtNext ==
    \/ AtTimer
    \/ AtFetched
    \/ AtItem
    \/ AtScore
    \/ AtReturn
    \/ AtRead

SpecAtomic == AtInit /\ [][AtNext]_vars

\* ------------------------------------------------- serve mode, ticks that go on
\* The process from its start through the Collector's initial run, with
\* every summarization call returning (Summarizer.chat resolves, with text
\* or with ""), so that a Builder tick that is suspended is resumed.
\* Nothing is assumed about the clock.
LvNext ==
    \/ Advance
    \/ CollectorFetched
    \/ BuilderTimer
    \/ BuilderResume

SpecLive == Init /\ [][LvNext]_vars /\ WF_vars(BuilderResume)

\* ------------------------------------------- serve mode over an old snapshot
\* The process is started with a summarizer over the store that a run of
\* 7 days ago has left in _store.json: the topics of that day and their
\* score table, which gc keeps on the day of the start and removes on the
\* day after.
WkOldPeriods == {0 - KeepDays}

WkOldStore(q) == StoreFeed(EmptyStore, q, Feed(NumIds, 1, q * DayLen), q * DayLen)

WkInit ==
    /\ \E q \in WkOldPeriods :
          /\ store = WkOldStore(q)
          /\ maxUp = NoteFeed(<<>>, q, Feed(NumIds, 1, q * DayLen), q * DayLen)
    /\ disk = persist(store)
    /\ now = 0
    /\ apiKey = TRUE
    /\ sources = nodes
    /\ down = {}
    /\ alive = TRUE
    /\ cticks = One([period |-> PeriodOf(0), node |-> 1, initial |-> TRUE,
                     asked |-> <<nodes[1]>>, oks |-> <<>>])
    /\ ctimer = FALSE
    /\ cdue = 0
    /\ cprev = 0
    /\ bticks = EmptyBag
    /\ btimer = TRUE
    /\ written = <<>>
    /\ last = [act |-> "start"]

WkNext ==
    \/ Advance
    \/ CollectorTimer
    \/ CollectorFetched
    \/ BuilderTimer
    \/ BuilderResume

SpecWeek == WkInit /\ [][WkNext]_vars

\* ------------------------------------------------------------ generate mode
\* One run of `generate` after another, each a process of its own.  In this
\* mode disk is the directory ./data (period -> the cache file of that day),
\* written counts the digest files as in serve mode, cticks holds the run
\* that is suspended in a fetch or in a summarization, cdue counts the runs
\* started, and maxUp records, per id, the instant at which the id was last
\* written into a digest.
GnSourceLists == {SubSeq(SourceNames, 1, n) : n \in 1..2}
GnSizes == {0, 3}

\* Storage.save: data/<date>.json is replaced
save(dir, date, items, t) ==
    Put(dir, date, [kind |-> "json", fetchedAt |-> t, items |-> items])

\* Storage.getRecentIds(hours) with Date.now() = t
getRecentIds(dir, hours, t) ==
    UNION {{dir[f].items[i].id : i \in DOMAIN dir[f].items} :
              f \in {g \in DOMAIN dir : /\ dir[g].kind = "json"
                                         /\ dir[g].fetchedAt >= t - hours}}

GnRun(today) == [today |-> today, pc |-> "fetch", node |-> 1, allItems |-> <<>>,
                 ranked |-> <<>>, idx |-> 0]

GnInit ==
    /\ store = EmptyStore
    /\ disk = <<>>
    /\ now = 0
    /\ apiKey \in BOOLEAN
    /\ sources \in GnSourceLists
    /\ down = {}
    /\ alive = TRUE
    /\ cticks = One(GnRun(PeriodOf(0)))
    /\ ctimer = FALSE
    /\ cdue = 1
    /\ cprev = 0
    /\ bticks = EmptyBag
    /\ btimer = FALSE
    /\ written = <<>>
    /\ maxUp = <<>>
    /\ last = [act |-> "start"]

GnFrame == UNCHANGED <<store, now, apiKey, sources, down, ctimer, cprev, bticks, btimer>>

\* the command is run again once the process of the previous run has ended
GnStart ==
    /\ cticks = EmptyBag
    /\ cdue < MaxRuns
    /\ cdue' = cdue + 1
    /\ cticks' = One(GnRun(PeriodOf(now)))
    /\ alive' = TRUE
    /\ last' = [act |-> "generate"]
    /\ UNCHANGED <<disk, written, maxUp>>
    /\ GnFrame

\* an exit that leaves the cache file of the day behind
GnExitSaves(r, why) ==
    /\ cticks' = EmptyBag
    /\ alive' = FALSE
    /\ last' = IF why = "none fetched"
               THEN [act |-> "exit", code |-> 1, why |-> why, all |-> r.allItems]
               ELSE [act |-> "exit", code |-> 1, why |-> why, all |-> r.allItems,
                     skipIds |-> getRecentIds(disk, SkipTtl, now)]
    /\ disk' = Put(disk, r.today, [kind |-> "json", fetchedAt |-> now, items |-> r.allItems])
    /\ UNCHANGED <<written, maxUp>>

\* process.exit(1)
GnExit(r, why) ==
    /\ cticks' = EmptyBag
    /\ alive' = FALSE
    /\ last' = IF why = "none fetched"
               THEN [act |-> "exit", code |-> 1, why |-> why, all |-> r.allItems]
               ELSE [act |-> "exit", code |-> 1, why |-> why, all |-> r.allItems,
                     skipIds |-> getRecentIds(disk, SkipTtl, now)]
    /\ UNCHANGED <<disk, written, maxUp>>

\* runGenerate from the title to its end: the digest and then the cache
\* file are written, the process ends with code 0
GnWrite(r, ranked) ==
    /\ written' = Put(written, r.today,
                      IF r.today \in DOMAIN written THEN written[r.today] + 1 ELSE 1)
    /\ disk' = save(disk, r.today, r.allItems, now)
    /\ maxUp' = [id \in DOMAIN maxUp \cup {ranked[i].item.id : i \in DOMAIN ranked} |->
                    IF \E i \in DOMAIN ranked : ranked[i].item.id = id THEN now
                    ELSE maxUp[id]]
    /\ cticks' = EmptyBag
    /\ alive' = FALSE

\* The fetch of source r.node resolves with a list of topics (ok) or
\* rejects.  After the last source the run goes on to the checks, the
\* ranking and - without a summarizer - the writes.
GnFetched ==
    \E r \in BagToSet(cticks), ok \in BOOLEAN, k \in GnSizes, shape \in Shapes :
        /\ r.pc = "fetch"
        /\ ~ok => (k = 0 /\ shape = 1)
        /\ k = 0 => shape = 1
        /\ LET all == IF ok THEN r.allItems \o Feed(k, shape, now) ELSE r.allItems
               r2 == [r EXCEPT !.allItems = all]
               skipIds == getRecentIds(disk, SkipTtl, now)
               ranked == scoreAndRank(all, TopN, skipIds, excludeNodes, now)
           IN  IF r.node < Len(sources)
               THEN /\ cticks' = (cticks (-) One(r)) (+) One([r2 EXCEPT !.node = @ + 1])
                    /\ last' = [act |-> "fetched", ok |-> ok]
                    /\ UNCHANGED <<disk, written, maxUp, alive>>
               ELSE IF all = <<>> THEN GnExit(r2, "none fetched")
               ELSE IF ranked = <<>>
               THEN /\ GnExit(r2, "none ranked")
               ELSE IF apiKey
               THEN /\ cticks' = (cticks (-) One(r))
                                    (+) One([r2 EXCEPT !.pc = "summarize", !.ranked = ranked])
                    /\ last' = [act |-> "ranked", all |-> all, skipIds |-> skipIds]
                    /\ UNCHANGED <<disk, written, maxUp, alive>>
               ELSE /\ GnWrite(r2, ranked)
                    /\ last' = [act |-> "done", code |-> 0, all |-> all,
                                skipIds |-> skipIds]
        /\ UNCHANGED cdue
        /\ GnFrame

\* A summarization call returns: summarizeItem for each ranked item, then
\* summarizePost, then the writes.
GnSummarized ==
    \E r \in BagToSet(cticks) :
        /\ r.pc = "summarize"
        /\ IF r.idx < Len(r.ranked)
           THEN /\ cticks' = (cticks (-) One(r)) (+) One([r EXCEPT !.idx = @ + 1])
                /\ last' = [act |-> "summarized"]
                /\ UNCHANGED <<disk, written, maxUp, alive>>
           ELSE /\ GnWrite(r, r.ranked)
                /\ last' = [act |-> "done", code |-> 0]
        /\ UNCHANGED cdue
        /\ GnFrame

\* a cache file is damaged between two runs
GnCorrupt ==
    \E f \in DOMAIN disk :
        /\ cticks = EmptyBag
        /\ disk[f].kind = "json"
        /\ disk' = [disk EXCEPT ![f] = Garbage]
        /\ last' = [act |-> "corrupt"]
        /\ UNCHANGED <<cticks, written, maxUp, alive>>
        /\ UNCHANGED cdue
        /\ GnFrame

GnNext ==
    \/ Advance
    \/ GnStart
    \/ GnFetched
    \/ GnSummarized
    \/ GnCorrupt

SpecGenerate == GnInit /\ [][GnNext]_vars

\* =============================================================== properties
Table(s, p) == IF p \in DOMAIN s.periodScores THEN s.periodScores[p] ELSE <<>>
SkipKey(id) == <<channel, id>>
Marked(s, id) == SkipKey(id) \in DOMAIN s.skipped
TopIds(top) == {top[i].item.id : i \in DOMAIN top}

\* entry i of the table of period p is among the TopN x 5 highest scores
InPool(s, p, i) ==
    LET tbl == Table(s, p)
    IN  Cardinality({j \in DOMAIN tbl :
                        \/ tbl[j].score > tbl[i].score
                        \/ tbl[j].score = tbl[i].score /\ j < i}) < TopN * 5

\* entry i of the pool is looked at by the skip filter at all
Examined(s, p, i) ==
    LET id == Table(s, p)[i].id
    IN  /\ InPool(s, p, i)
        /\ id \in DOMAIN s.items
        /\ toLowerCase(s.items[id].nodeName) \notin {"promotions", "deals", "cv", "exchange"}

\* entry i passes every filter of a Builder tick at time t
Survives(s, p, i, t) ==
    LET e == Table(s, p)[i]
    IN  /\ Examined(s, p, i)
        /\ ~(Marked(s, e.id) /\ t <= s.skipped[SkipKey(e.id)])
        /\ s.items[e.id].replies > 0
        /\ e.score > 0

ExaminedIds(s, p) == {Table(s, p)[i].id : i \in {j \in DOMAIN Table(s, p) : Examined(s, p, j)}}
SurvivorIds(s, p, t) == {Table(s, p)[i].id : i \in {j \in DOMAIN Table(s, p) : Survives(s, p, j, t)}}

\* a step that is the start of a Builder tick / the end of one
TickStarts == last'.act = "BuilderTimer"
Publishes == last'.act \in {"BuilderTimer", "BuilderResume"} /\ last'.res = "published"
StartedTick == CHOOSE t \in BagToSet(bticks') : CopiesIn(t, bticks') > CopiesIn(t, bticks)
EndedTick == CHOOSE t \in BagToSet(bticks) : CopiesIn(t, bticks) > CopiesIn(t, bticks')
\* the period, the selection and the unselected survivors of the tick that publishes
PubPeriod == IF last'.act = "BuilderResume" THEN EndedTick.period ELSE PeriodOf(now)
PubTop == IF last'.act = "BuilderResume" THEN EndedTick.top ELSE last'.top
PubRest == IF last'.act = "BuilderResume" THEN EndedTick.rest ELSE last'.rest
Writes(p) == IF p \in DOMAIN written THEN written[p] ELSE 0

\* C1: the digest of a (channel, period) is written at most once, whatever
\* the interleaving of Collector ticks, Builder timer firings and
\* summarization suspensions.
C1_PublishedOnce == \A p \in DOMAIN written : written[p] <= 1

\* C2: a new tick of a task never starts while a previous tick of the same
\* task is still running.
C2_NonReentrant == BagCardinality(cticks) <= 1 /\ BagCardinality(bticks) <= 1

\* C3: the score stored for a (period, id) is the maximum score ever
\* upserted for that pair (so an upsert with a lower or equal score changes
\* nothing and the stored score never decreases).
C3_Ratchet ==
    \A p \in DOMAIN store.periodScores : \A i \in DOMAIN store.periodScores[p] :
        LET e == store.periodScores[p][i]
        IN  /\ <<p, e.id>> \in DOMAIN maxUp
            /\ e.score = maxUp[<<p, e.id>>]

C3_Witness ==
    /\ last.act = "CollectorResume"
    /\ last.lowers
    /\ store.periodScores # <<>>

\* C4: a publish marker, once set, is in the publish set in every later
\* state, and marking a (channel, period) that is already marked leaves the
\* publish set as it is.
C4_PublishPermanent ==
    [][/\ store.published \subseteq store'.published
       /\ Publishes =>
            /\ <<channel, PubPeriod>> \in store'.published
            /\ (<<channel, PubPeriod>> \in store.published
                    => store'.published = store.published)]_vars

C4_Witness == Cardinality(store.published) = 2

\* C5: a Builder tick that starts when (channel, period) is published
\* returns at the publish check, before the candidate read: it summarizes
\* nothing, writes nothing and changes no part of the store.
C5_PublishedNoop ==
    [][(TickStarts /\ <<channel, PeriodOf(now)>> \in store.published)
          => /\ last'.res = "already"
             /\ UNCHANGED <<store, disk, written, bticks>>]_vars

C5_Witness == last.act = "BuilderTimer" /\ last.res = "already"

\* a Builder tick starts on an unpublished period with fewer than minItems
\* survivors
TickWaits ==
    /\ TickStarts
    /\ <<channel, PeriodOf(now)>> \notin store.published
    /\ Cardinality(SurvivorIds(store, PeriodOf(now), now)) < 5

\* C6 as claimed: a Builder tick with fewer than 5 survivors leaves the whole
\* store, expired skip entries included, as it was.
C6_WaitingUnchanged == [][TickWaits => UNCHANGED <<store, disk, written, bticks>>]_vars

\* C6 as amended: a Builder tick with fewer than 5 survivors publishes
\* nothing and leaves items, score tables and publish set as they were; of
\* the skip map it removes exactly the expired entries of the candidates
\* it examined.
C6_WaitingEvictsOnly ==
    [][TickWaits =>
         LET evicted == {SkipKey(id) : id \in
                            {x \in ExaminedIds(store, PeriodOf(now)) :
                                Marked(store, x) /\ now > store.skipped[SkipKey(x)]}}
         IN  /\ UNCHANGED <<disk, written, bticks>>
             /\ store'.items = store.items
             /\ store'.periodScores = store.periodScores
             /\ store'.published = store.published
             /\ DOMAIN store'.skipped = (DOMAIN store.skipped) \ evicted
             /\ \A k \in DOMAIN store'.skipped : store'.skipped[k] = store.skipped[k]]_vars

C6_Witness == last.act = "BuilderTimer" /\ last.res = "waiting" /\ last.evicted

\* a Builder tick starts on an unpublished period with at least minItems
\* survivors
TickSelects ==
    /\ TickStarts
    /\ <<channel, PeriodOf(now)>> \notin store.published
    /\ Cardinality(SurvivorIds(store, PeriodOf(now), now)) >= 5

C8_NoRepublish ==
    [][(Publishes /\ <<channel, PubPeriod>> \notin store.published) =>
         \A id \in TopIds(PubTop) :
             ~(Marked(store, id) /\ now <= store.skipped[SkipKey(id)])]_vars

\* C9 as claimed: isSkipped answers true while less than ttl has elapsed
\* since markSkipped, and from ttl on (exactly ttl included) answers false
\* and removes the entry.
C9_ExpiresAtTtl ==
    [][(last'.act = "isSkipped" /\ Marked(store, last'.id)) =>
         IF now < store.skipped[SkipKey(last'.id)]
         THEN last'.res = TRUE
         ELSE last'.res = FALSE /\ ~Marked(store', last'.id)]_vars

\* C9 as amended: markSkipped stores expiry = now + ttl; isSkipped answers
\* true as long as no more than ttl has elapsed (exactly ttl included) and
\* keeps the entry; once more than ttl has elapsed it answers false and
\* removes the entry.
C9_ExpiresAfterTtl ==
    [][/\ last'.act = "markSkipped" =>
            /\ Marked(store', last'.id)
            /\ store'.skipped[SkipKey(last'.id)] = now + last'.ttl
       /\ (last'.act = "isSkipped" /\ Marked(store, last'.id)) =>
            IF now <= store.skipped[SkipKey(last'.id)]
            THEN last'.res = TRUE /\ store' = store
            ELSE /\ last'.res = FALSE
                 /\ ~Marked(store', last'.id)
                 /\ store' = [store EXCEPT !.skipped = Drop(@, {SkipKey(last'.id)})]]_vars

C9_Witness == last.act = "isSkipped" /\ last.had /\ last.res = FALSE

\* C10: gc removes exactly the score tables of the periods before the day
\* of (now - 7 days) and exactly the skip markers whose expiry has passed;
\* everything else is left as it was.
C10_GcExact ==
    [][last'.act = "gc" =>
         /\ store'.items = store.items
         /\ store'.published = store.published
         /\ DOMAIN store'.periodScores =
                {p \in DOMAIN store.periodScores : ~(p < PeriodOf(now) - 7)}
         /\ \A p \in DOMAIN store'.periodScores :
                store'.periodScores[p] = store.periodScores[p]
         /\ DOMAIN store'.skipped =
                {k \in DOMAIN store.skipped : ~(store.skipped[k] < now)}
         /\ \A k \in DOMAIN store'.skipped : store'.skipped[k] = store.skipped[k]]_vars

C10_Witness ==
    /\ last.act = "gc"
    /\ last.tables > 0
    /\ last.markers > 0
    /\ store.periodScores # <<>>
    /\ store.skipped # <<>>

\* some part of the snapshot is not of the shape persist writes
Malformed(file) ==
    \/ file.kind = "garbage"
    \/ /\ file.kind = "json"
       /\ \/ \E i \in DOMAIN file.items.v : file.items.v[i].null
          \/ \E i \in DOMAIN file.periodScores.v : file.periodScores.v[i].null
          \/ file.published.t = "number"

\* C11: load() of a missing snapshot changes nothing, and load() of a
\* malformed snapshot leaves items, score tables, publish set and skip map
\* all empty, whichever part is the malformed one.
C11_MalformedLoadsEmpty ==
    (last.act = "load" /\ (disk.kind = "missing" \/ Malformed(disk)))
        => store = EmptyStore

\* two score tables hold the same score for the same identifiers
SameTable(a, b) ==
    /\ Len(a) = Len(b)
    /\ {a[i] : i \in DOMAIN a} = {b[i] : i \in DOMAIN b}

SameStore(a, b) ==
    /\ a.items = b.items
    /\ DOMAIN a.periodScores = DOMAIN b.periodScores
    /\ \A p \in DOMAIN a.periodScores : SameTable(a.periodScores[p], b.periodScores[p])
    /\ a.published = b.published
    /\ a.skipped = b.skipped

\* the step taken last ended with a persist() that returned
Persisted ==
    \/ last.act = "CollectorResume" /\ last.persisted
    \/ last.act \in {"BuilderTimer", "BuilderResume"} /\ last.res = "published"

\* C12: a store loaded from the snapshot that persist() writes for the
\* store of any reachable state has the same items, the same score for
\* every identifier of every period, the same publish set and the same skip
\* map with the same expiries; and after a step that persisted, the file
\* holds the snapshot of the store as it is in memory.
C12_RoundTrip ==
    /\ SameStore(load(EmptyStore, persist(store)), store)
    /\ Persisted => /\ disk = persist(store)
                    /\ SameStore(load(EmptyStore, disk), store)

C12_Witness ==
    /\ Persisted
    /\ store.items # <<>>
    /\ store.published # {}
    /\ store.skipped # <<>>
    /\ \E p \in DOMAIN store.periodScores :
          \E i, j \in DOMAIN store.periodScores[p] :
              i < j /\ store.periodScores[p][i].id > store.periodScores[p][j].id

\* C13: a Collector tick asks for every configured source once, in the
\* configured order, whether or not earlier sources failed; the items of a
\* source that answered are upserted and a source that failed changes
\* nothing; the tick persists once, when the last source has been
\* processed, and not before.
C13_EverySourceOnce ==
    [][/\ last'.act = "CollectorTimer" =>
            /\ disk' = disk
            /\ \E t \in BagToSet(cticks') :
                  /\ CopiesIn(t, cticks') > CopiesIn(t, cticks)
                  /\ t.asked = <<sources[1]>>
       /\ last'.act = "CollectorResume" =>
            /\ last'.asked = SubSeq(sources, 1, last'.node)
            /\ last'.done <=> (last'.node = Len(sources))
            /\ IF last'.ok
               THEN \E k \in FeedSizes, shape \in Shapes :
                        store' = StoreFeed(store, last'.period, Feed(k, shape, now), now)
               ELSE store' = store
            /\ IF last'.done
               THEN /\ disk' = persist(store')
                    /\ BagCardinality(cticks') = BagCardinality(cticks) - 1
               ELSE /\ disk' = disk
                    /\ BagCardinality(cticks') = BagCardinality(cticks)
                    /\ \E t \in BagToSet(cticks') :
                          /\ CopiesIn(t, cticks') > CopiesIn(t, cticks)
                          /\ t.asked = SubSeq(sources, 1, last'.node + 1)]_vars

C13_Witness ==
    /\ last.act = "CollectorResume"
    /\ last.done
    /\ Len(last.oks) >= 2
    /\ ~last.oks[1]
    /\ last.oks[Len(last.oks)]
    /\ store.items # <<>>
    /\ disk = persist(store)

\* C14: when the shutdown signal ends the process, no Collector or Builder
\* tick is cut off in a fetch or a summarization (every tick that was in
\* flight has run to completion), and the store is persisted once.
C14_ShutdownDrains ==
    [][last'.act = "Shutdown" =>
          /\ cticks = EmptyBag
          /\ bticks = EmptyBag
          /\ "data" \notin down => disk' = persist(store)]_vars

\* C16: a summarization call that fails returns the empty string and the
\* tick goes on: to the next call, or to the digest, which is written with
\* the descriptions the calls returned (blank for the failed ones), with
\* (channel, period) marked published and every selected item marked
\* skipped.
C16_BlankNotBlocked ==
    [][(last'.act = "BuilderResume" /\ down \subseteq {"ai"}) =>
          /\ last'.res \in {"summarized", "published"}
          /\ last'.res = "summarized" =>
                /\ last'.desc = (IF "ai" \in down THEN "" ELSE "text")
                /\ StartedTick.idx = EndedTick.idx + 1
                /\ StartedTick.descs = Append(EndedTick.descs, last'.desc)
                /\ StartedTick.top = EndedTick.top
                /\ UNCHANGED <<store, written>>
          /\ last'.res = "published" =>
                /\ last'.summary = (IF "ai" \in down THEN "" ELSE "text")
                /\ last'.descs = EndedTick.descs
                /\ Len(last'.descs) = Len(EndedTick.top)
                /\ written' = Put(written, EndedTick.period, Writes(EndedTick.period) + 1)
                /\ <<channel, EndedTick.period>> \in store'.published
                /\ \A id \in TopIds(EndedTick.top) :
                      Marked(store', id) /\ store'.skipped[SkipKey(id)] = now + SkipTtl]_vars

C16_Witness ==
    /\ last.act = "BuilderResume"
    /\ last.res = "published"
    /\ last.summary = ""
    /\ \E i \in DOMAIN last.descs : last.descs[i] = ""
    /\ store.published # {}
    /\ store.skipped # <<>>

\* C17: no failure inside a Collector or Builder tick (a fetch that
\* throws, a summarization that fails, a digest write or a persist that
\* throws) ends the process or clears a timer: after the step both loops
\* go on.
C17_FailuresSurvived ==
    [][last'.act \in {"CollectorResume", "BuilderTimer", "BuilderResume"} =>
          /\ alive'
          /\ btimer' = btimer
          /\ ctimer => ctimer']_vars

\* C15: every tick of the Collector after the first starts exactly one
\* interval after the start of the tick before it; for the second tick
\* that is one interval after the start of the first tick, which starts
\* with the task at instant 0.
C15_FixedRateFromStart ==
    [][last'.act = "ClkFire" => now = cprev + Interval]_vars

Excluded(item, excl) ==
    \E i \in DOMAIN excl : toLowerCase(item.nodeName) = toLowerCase(excl[i])

\* C18: the result of scoreAndRank has no identifier twice, no score <= 0,
\* no item whose identifier is in skipIds, no item whose node is in
\* excludeNodes whatever the case of either name, at most topN entries,
\* and scores that never increase along the list.
C18_RankedWellFormed ==
    last.act = "scoreAndRank" =>
        LET res == last.res
        IN  /\ \A i, j \in DOMAIN res : i # j => res[i].item.id # res[j].item.id
            /\ \A i \in DOMAIN res :
                  /\ res[i].score > 0
                  /\ res[i].score = computeScore(res[i].item, now)
                  /\ res[i].item.id \notin last.skipIds
                  /\ ~Excluded(res[i].item, last.excludeNodes)
                  /\ \E k \in DOMAIN last.items : last.items[k] = res[i].item
            /\ Len(res) <= last.topN
            /\ \A i, j \in DOMAIN res : i < j => res[i].score >= res[j].score

C18_Witness ==
    /\ last.act = "scoreAndRank"
    /\ Len(last.items) = 3
    /\ last.excludeNodes = <<"DEALS">>
    /\ \E i \in DOMAIN last.items : last.items[i].nodeName = "Deals"
    /\ \E i \in DOMAIN last.items : last.items[i].id \in last.skipIds
    /\ last.topN = 1
    /\ Len(last.res) = 1

\* the reference pipeline, step by step
RECURSIVE RefDedup(_, _)
RefDedup(items, seen) ==
    IF items = <<>> THEN <<>>
    ELSE IF Head(items).id \in seen THEN RefDedup(Tail(items), seen)
    ELSE <<Head(items)>> \o RefDedup(Tail(items), seen \cup {Head(items).id})

RefRank(items, topN, skipIds, excl, t) ==
    LET unique == RefDedup(items, {})
        kept == SelectSeq(unique, LAMBDA it : it.id \notin skipIds /\ ~Excluded(it, excl))
        scored == SelectSeq([i \in DOMAIN kept |->
                                [item |-> kept[i], score |-> computeScore(kept[i], t)]],
                            LAMBDA e : e.score > 0)
        sorted == SortDesc(scored)
    IN  SubSeq(sorted, 1, Min(topN, Len(sorted)))

\* C19: scoreAndRank returns what the reference pipeline returns:
\* deduplicate by identifier keeping the first occurrence, then drop
\* skipped and excluded items, then drop scores <= 0, then sort
\* descending (stable), then truncate to topN; so an identifier whose first
\* occurrence is excluded does not appear at all.
C19_ReferencePipeline ==
    last.act = "scoreAndRank" =>
        last.res = RefRank(last.items, last.topN, last.skipIds, last.excludeNodes, now)

\* C20: computeScore is 0 for replies <= 0, and never negative and never
\* NaN whatever the item and the clock (creation times in the future and
\* invalid ones included); an item whose score is 0 is in no result of
\* scoreAndRank and is not upserted by the Collector's loop.
C20_ScoreNonNegative ==
    /\ last.act = "computeScore" =>
          /\ last.res # NaN
          /\ last.res >= 0
          /\ last.item.replies <= 0 => last.res = 0
    /\ last.act = "scoreAndRank" =>
          \A k \in DOMAIN last.items :
              computeScore(last.items[k], now) = 0 =>
                  \A i \in DOMAIN last.res : last.res[i].item # last.items[k]
    /\ last.act = "collect" =>
          /\ \A k \in DOMAIN last.items :
                computeScore(last.items[k], now) = 0 =>
                    \A id \in DOMAIN store.items : store.items[id] # last.items[k]
          /\ \A p \in DOMAIN store.periodScores : \A i \in DOMAIN store.periodScores[p] :
                /\ store.periodScores[p][i].score > 0
                /\ store.periodScores[p][i].score # NaN

C20_Witness ==
    /\ last.act = "collect"
    /\ \E k \in DOMAIN last.items : last.items[k].replies <= 0
    /\ \E k \in DOMAIN last.items : last.items[k].createdAt = NaN
    /\ \E k \in DOMAIN last.items : last.items[k].createdAt > now
    /\ Cardinality(DOMAIN store.items) = 1


\* C21: topItems(period, n) returns the empty sequence for a period without a
\* score table; otherwise it returns exactly min(n, size of the table) pairs
\* for distinct ids of the table, in non-increasing order of score, each with
\* the score stored for its id in that period and the item stored for its id,
\* and no entry left out outscores an entry returned.
C21_TopItems ==
    last.act = "topItems" =>
        LET res == last.res
            p == last.period
        IN  IF p \notin DOMAIN store.periodScores THEN res = <<>>
            ELSE LET table == store.periodScores[p]
                 IN  /\ Len(res) = Min(last.n, Len(table))
                     /\ \A i, j \in DOMAIN res :
                            /\ i < j => res[i].score >= res[j].score
                            /\ i # j => res[i].item.id # res[j].item.id
                     /\ \A i \in DOMAIN res :
                            /\ HasId(table, res[i].item.id)
                            /\ res[i].score = ScoreOfId(table, res[i].item.id)
                            /\ res[i].item.id \in DOMAIN store.items
                            /\ res[i].item = store.items[res[i].item.id]
                     /\ \A k \in DOMAIN table :
                            (\A i \in DOMAIN res : res[i].item.id # table[k].id)
                                => \A i \in DOMAIN res : res[i].score >= table[k].score

\* a read that truncates a table held out of score order, and the item it
\* returns is not the one first stored
C21_Witness ==
    /\ last.act = "topItems"
    /\ last.period \in DOMAIN store.periodScores
    /\ Len(store.periodScores[last.period]) = 2
    /\ store.periodScores[last.period][1].score < store.periodScores[last.period][2].score
    /\ last.n = 1
    /\ Len(last.res) = 1
    /\ last.res[1].item.replies = 3

\* C26: addItem always leaves the supplied item stored under its id, also
\* when the supplied score is not above the stored one and the score table
\* keeps its entries.
C26_LastWriteWins ==
    [][last'.act = "addItem" =>
          /\ last'.item.id \in DOMAIN store'.items
          /\ store'.items[last'.item.id] = last'.item
          /\ \A id \in DOMAIN store.items :
                 id # last'.item.id => store'.items[id] = store.items[id]
          /\ (/\ last'.period \in DOMAIN store.periodScores
              /\ HasId(store.periodScores[last'.period], last'.item.id)
              /\ last'.score <= ScoreOfId(store.periodScores[last'.period], last'.item.id))
                 => store'.periodScores = store.periodScores]_vars

\* an upsert with a lower score has replaced the stored item and left the
\* higher score in place
C26_Witness ==
    /\ last.act = "addItem"
    /\ last.score = 1
    /\ last.item.replies = 3
    /\ last.period \in DOMAIN store.periodScores
    /\ HasId(store.periodScores[last.period], last.item.id)
    /\ ScoreOfId(store.periodScores[last.period], last.item.id) = 2
    /\ store.items[last.item.id] = last.item


\* every stored item that scores above 0 has an entry of at least that score
\* in the table of period p: no upsert is half applied
Upserted(s, p, t) ==
    \A id \in DOMAIN s.items :
        computeScore(s.items[id], t) > 0 =>
            /\ HasId(Table(s, p), id)
            /\ ScoreOfId(Table(s, p), id) >= computeScore(s.items[id], t)

\* C22: no Store method suspends: whenever the Builder reads the table,
\* however the Collector ticks are interleaved at their fetches, every
\* upsert is either wholly applied (item stored and score applied) or not
\* begun, and addItem in two writes is addItem.
C22_AtomicUpserts ==
    /\ last.act = "topItems" =>
           /\ Upserted(store, last.period, now)
           /\ \A t \in BagToSet(cticks) : t.pc = "fetch"
           /\ \A i \in DOMAIN last.res :
                  last.res[i].score >= computeScore(last.res[i].item, now)
    /\ \A t \in BagToSet(cticks) :
           t.pc = "loop" /\ t.idx <= Len(t.items) =>
               addItemScore(addItemSet(store, t.items[t.idx]), t.period, t.items[t.idx], 1)
                   = addItem(store, t.period, t.items[t.idx], 1)

\* a read between two Collector ticks: one has stored its items, the other
\* is awaiting its fetch
C22_Witness ==
    /\ last.act = "topItems"
    /\ Len(last.res) = fetchN
    /\ BagCardinality(cticks) = 1
    /\ disk # NoFile


\* C23: a Collector step adds, changes and removes no publish marker and no
\* skip marker; a Builder step adds and changes no item and no score entry
\* (the tables it leaves are tables that were there, entry for entry).
C23_RoleSeparation ==
    [][/\ last'.act \in {"CollectorTimer", "CollectorResume"} =>
            /\ store'.published = store.published
            /\ store'.skipped = store.skipped
       /\ last'.act \in {"BuilderTimer", "BuilderResume"} =>
            /\ store'.items = store.items
            /\ \A p \in DOMAIN store'.periodScores :
                   /\ p \in DOMAIN store.periodScores
                   /\ store'.periodScores[p] = store.periodScores[p]]_vars

\* a Collector tick has stored a feed in a store that holds a publish marker
\* and a skip marker written by a Builder tick
C23_Witness ==
    /\ last.act = "CollectorResume"
    /\ last.ok
    /\ store.published # {}
    /\ DOMAIN store.skipped # {}
    /\ \E p \in DOMAIN store.periodScores : <<channel, p>> \notin store.published


\* the current period p is unpublished and at least minItems candidates
\* survive the filters
Ready(p) ==
    /\ PeriodOf(now) = p
    /\ <<channel, p>> \notin store.published
    /\ Cardinality(SurvivorIds(store, p, now)) >= minItems

\* the Builder's timer has just fired
BuilderTicked == last.act = "BuilderTimer"

\* C24: if Builder ticks keep being scheduled, a current period that is
\* unpublished with at least 5 surviving candidates is eventually published.
C24_EventuallyPublished ==
    ([]<>BuilderTicked) =>
        \A p \in 0..PeriodOf(MaxTime) : Ready(p) ~> (<<channel, p>> \in store.published)

\* C25: a generate run that fetched no item from any source, or whose
\* ranking is empty, ends with exit code 1 and has written neither a digest
\* file nor a cache file.
C25_EmptyRunExits ==
    [][(/\ last'.act \in {"exit", "ranked", "done"}
        /\ "all" \in DOMAIN last'
        /\ \/ last'.all = <<>>
           \/ scoreAndRank(last'.all, TopN, getRecentIds(disk, SkipTtl, now),
                           excludeNodes, now) = <<>>)
          => /\ last'.act = "exit"
             /\ last'.code # 0
             /\ ~alive'
             /\ written' = written
             /\ disk' = disk]_vars

\* a run whose topics were all fetched but none ranked (an earlier run has
\* left a cache file) has exited
C25_Witness ==
    /\ last.act = "exit"
    /\ last.code = 1
    /\ last.why = "none ranked"
    /\ last.all # <<>>
    /\ disk # <<>>
    /\ ~alive

\* the ids written into a digest during the last `hours` time units
PublishedSince(hours) == {id \in DOMAIN maxUp : maxUp[id] >= now - hours}

\* C28: the ids a generate run skips (getRecentIds(skipHours)) are ids that
\* an earlier run wrote into a digest within the last skipHours, and they
\* are the ids the readable cache files give: a corrupt file changes nothing
\* about the ids taken from the others.
C28_SkipsOnlyPublished ==
    [][("skipIds" \in DOMAIN last') =>
          /\ last'.skipIds \subseteq PublishedSince(SkipTtl)
          /\ last'.skipIds =
                getRecentIds([f \in {g \in DOMAIN disk : disk[g].kind = "json"} |-> disk[f]],
                             SkipTtl, now)]_vars

\* C27: every item a Builder tick selects for its digest has, when it is
\* selected, a node name that differs from every excluded name whatever
\* the case, no skip marker of the channel that has not expired, more than
\* 0 replies and a stored score above 0; the digest that is written holds
\* the items selected.
C27_DigestItemsQualified ==
    [][/\ (last'.act = "BuilderTimer" /\ last'.res \in {"selected", "published"}) =>
            LET top == IF last'.res = "selected" THEN StartedTick.top ELSE last'.top
                tbl == Table(store, PeriodOf(now))
            IN  \A i \in DOMAIN top :
                   LET id == top[i].item.id
                   IN  /\ \A k \in DOMAIN excludeNodes :
                              toLowerCase(top[i].item.nodeName) # toLowerCase(excludeNodes[k])
                       /\ ~(Marked(store, id) /\ store.skipped[SkipKey(id)] >= now)
                       /\ top[i].item.replies > 0
                       /\ top[i].score > 0
                       /\ HasId(tbl, id)
                       /\ top[i].score = ScoreOfId(tbl, id)
                       /\ id \in DOMAIN store.items
                       /\ top[i].item = store.items[id]
       /\ (last'.act = "BuilderResume" /\ last'.res = "published") =>
            /\ written' # written
            /\ \A i \in DOMAIN EndedTick.top :
                   SkipKey(EndedTick.top[i].item.id) \in DOMAIN store'.skipped]_vars

\* a second digest has been published while the store holds a topic of an
\* excluded node and the skip marker of the first digest
C27_Witness ==
    /\ last.act \in {"BuilderTimer", "BuilderResume"}
    /\ last.res = "published"
    /\ Cardinality(store.published) = 2
    /\ Cardinality(DOMAIN store.skipped) = 2
    /\ \E id \in DOMAIN store.items : toLowerCase(store.items[id].nodeName) = "deals"

\* C29: no step removes the score table of the current period or of a
\* period of the last 7 days, or removes or lowers an entry of such a table,
\* and the period a Collector tick writes to is always one of them: the gc
\* of a Builder tick never resets the ratchet of a table in use.
C29_GcKeepsRecent ==
    [][/\ \A p \in DOMAIN store.periodScores :
              p >= PeriodOf(now) - KeepDays =>
                  /\ p \in DOMAIN store'.periodScores
                  /\ \A i \in DOMAIN store.periodScores[p] :
                         LET e == store.periodScores[p][i]
                         IN  /\ HasId(store'.periodScores[p], e.id)
                             /\ ScoreOfId(store'.periodScores[p], e.id) >= e.score
       /\ \A t \in BagToSet(cticks) : t.period >= PeriodOf(now) - KeepDays]_vars

\* the gc of a publishing tick has removed the old table and kept the table
\* of the day, while a Collector tick is suspended
C29_Witness ==
    /\ last.act = "BuilderResume"
    /\ last.res = "published"
    /\ \A q \in WkOldPeriods : q \notin DOMAIN store.periodScores
    /\ PeriodOf(now) \in DOMAIN store.periodScores
    /\ Len(store.periodScores[PeriodOf(now)]) >= minItems
    /\ cticks # EmptyBag

\* C30: from the empty store on, every score held in a period table is
\* above 0 and every id with a score entry has an item in the items map, so
\* topItems returns an entry for every table entry it was asked for.
C30_TablesBacked ==
    \A p \in DOMAIN store.periodScores :
        /\ \A i \in DOMAIN store.periodScores[p] :
               /\ store.periodScores[p][i].score > 0
               /\ store.periodScores[p][i].id \in DOMAIN store.items
        /\ Len(topItems(store, p, fetchN)) = Min(fetchN, Len(store.periodScores[p]))

\* two days of tables, one of them published (gc has run), and a Collector
\* tick has just stored the feed that has a topic scoring 0
C30_Witness ==
    /\ Cardinality(DOMAIN store.periodScores) = 2
    /\ store.published # {}
    /\ last.act = "CollectorResume"
    /\ last.ok
    /\ \E id \in DOMAIN store.items : store.items[id].nodeName = "Deals"


\* ---- C31
\* the step writes a snapshot that differs from the one on disk
SnapshotWritten == disk' # disk /\ disk'.kind = "json"

\* the skip markers and the publish markers a snapshot holds
SnapSkipped(f) == IF f.kind = "json" THEN f.skipped.v ELSE <<>>
SnapPublished(f) == IF f.kind = "json" THEN f.published.v ELSE {}

\* the snapshot a publishing tick writes holds the tick's publish marker and
\* the skip marker of every item of its digest
SnapOfPublish ==
    Publishes =>
        /\ <<channel, PubPeriod>> \in SnapPublished(disk')
        /\ \A i \in TopIds(PubTop) : SkipKey(i) \in DOMAIN SnapSkipped(disk')

\* C31 (as stated): no snapshot written by persist() - by the Builder, by a
\* Collector tick or at shutdown - holds the publish marker of a (channel,
\* period) without the skip marker of every item of that period's digest.
\* Step by step: the snapshot of the publishing tick holds both, and a
\* snapshot that replaces another one holds every skip marker the replaced
\* one held (a skip marker is only ever set by a publishing tick, whose
\* publish marker is never removed).
C31_SnapshotHoldsAllMarkers ==
    [][/\ SnapOfPublish
       /\ SnapshotWritten =>
            \A k \in DOMAIN SnapSkipped(disk) : k \in DOMAIN SnapSkipped(disk')]_vars

\* C31 (amended): the snapshot of the publishing tick holds the publish
\* marker and the skip marker of every item of the digest, and every later
\* snapshot still holds each of these skip markers that has not expired when
\* it is written; a marker is missing from a snapshot only after its expiry.
C31_SnapshotHoldsLiveMarkers ==
    [][/\ SnapOfPublish
       /\ SnapshotWritten =>
            \A k \in DOMAIN SnapSkipped(disk) :
                SnapSkipped(disk)[k] >= now' => k \in DOMAIN SnapSkipped(disk')]_vars

\* a Collector tick or the shutdown handler has written a snapshot that
\* holds a publish marker together with the digest's skip markers
C31_Witness ==
    /\ last.act \in {"CollectorResume", "Shutdown"}
    /\ last.persisted
    /\ disk = persist(store)
    /\ SnapPublished(disk) # {}
    /\ \E k \in DOMAIN SnapSkipped(disk) : SnapSkipped(disk)[k] >= now


\* ---- C32
\* entry i of the table of period p passes every filter of a Builder tick at
\* time t, wherever it ranks
Qualifies(s, p, i, t) ==
    LET e == Table(s, p)[i]
    IN  /\ e.id \in DOMAIN s.items
        /\ toLowerCase(s.items[e.id].nodeName) \notin {"promotions", "deals", "cv", "exchange"}
        /\ ~(Marked(s, e.id) /\ t <= s.skipped[SkipKey(e.id)])
        /\ s.items[e.id].replies > 0
        /\ e.score > 0

QualifiedIds(s, p, t) == {Table(s, p)[i].id : i \in {j \in DOMAIN Table(s, p) : Qualifies(s, p, j, t)}}
PoolIds(s, p) == {Table(s, p)[i].id : i \in {j \in DOMAIN Table(s, p) : InPool(s, p, j)}}

\* C32: the threshold of a Builder tick counts only the survivors among the
\* TopN x 5 highest-scored entries of the period: with fewer than 5 of them
\* the tick waits, however many entries qualify further down the table, and
\* whatever a tick selects or publishes comes from that pool.
C32_ThresholdCountsPoolOnly ==
    [][TickStarts /\ <<channel, PeriodOf(now)>> \notin store.published =>
          /\ Cardinality(SurvivorIds(store, PeriodOf(now), now)) < minItems
                => last'.res = "waiting"
          /\ last'.res = "waiting"
                => Cardinality(SurvivorIds(store, PeriodOf(now), now)) < minItems
          /\ last'.res = "selected"
                => TopIds(StartedTick.top) \subseteq PoolIds(store, PeriodOf(now))
          /\ last'.res = "published"
                => TopIds(last'.top) \subseteq PoolIds(store, PeriodOf(now))]_vars

\* a tick has waited although 5 entries of the period's table qualify: one
\* of them ranks below the pool
C32_Witness ==
    /\ last.act = "BuilderTimer"
    /\ last.res = "waiting"
    /\ Cardinality(SurvivorIds(store, PeriodOf(now), now)) < minItems
    /\ Cardinality(QualifiedIds(store, PeriodOf(now), now)) >= minItems
    /\ QualifiedIds(store, PeriodOf(now), now) \ PoolIds(store, PeriodOf(now)) # {}

====
